---------------------------- MODULE Spec2Model ----------------------------
(***************************************************************************)
(* Twisted-ElGamal ciphertext algebra of xelis_common                      *)
(* (crypto/elgamal/ciphertext.rs) and its compressed wire form.            *)
(*                                                                         *)
(* The Ristretto group is a cyclic group of prime order; it is modelled    *)
(* as the additive group of integers modulo Q, the scalar field as the     *)
(* integers modulo Q.  A compressed point is a little-endian string of     *)
(* PointSize bytes (a byte is scaled down to one bit) holding the field    *)
(* element s of the point; as in Ristretto, a string whose s is negative   *)
(* (low bit set) or not the canonical encoding of a group element is       *)
(* rejected by decompression.                                              *)
(***************************************************************************)
EXTENDS Integers, Sequences, FiniteSets, TLC

\* Order of the group and of the scalar field (scaled down).
Q == 5

\* Bytes of one compressed point, RISTRETTO_COMPRESSED_SIZE (scaled down).
PointSize == 4

Byte == {0, 1}

Scalar == 0 .. (Q - 1)
Point == 0 .. (Q - 1)

---------------------------------------------------------------------------
(* Group primitive: curve25519_dalek Scalar and RistrettoPoint.            *)

Identity == 0

\* The two generators of the Pedersen commitment scheme.
G == 1
H == 2

ScalarAdd(a, b) == (a + b) % Q
ScalarSub(a, b) == (a - b + Q) % Q

PointAdd(p, q) == (p + q) % Q
PointSub(p, q) == (p - q + Q) % Q
ScalarMul(s, p) == (s * p) % Q

\* Little-endian value of a byte string.
LeValue(b) ==
    LET f[i \in 0 .. Len(b)] ==
            IF i = 0 THEN 0 ELSE f[i - 1] + b[i] * (2 ^ (i - 1))
    IN  f[Len(b)]

\* RistrettoPoint::compress: the canonical encoding, always even.
PointCompress(p) == [i \in 1 .. PointSize |-> ((2 * p) \div (2 ^ (i - 1))) % 2]

\* CompressedRistretto::decompress: None unless the string is the canonical
\* encoding of a group element.
PointDecompress(b) ==
    LET v == LeValue(b)
    IN  IF v % 2 = 1 \/ v \div 2 >= Q
        THEN [ok |-> FALSE, point |-> Identity]
        ELSE [ok |-> TRUE, point |-> v \div 2]

---------------------------------------------------------------------------
(* PedersenCommitment and DecryptHandle: newtypes around one point.        *)

CommitmentFromPoint(p) == p
HandleFromPoint(p) == p

CommitmentAdd(c1, c2) == PointAdd(c1, c2)
CommitmentSub(c1, c2) == PointSub(c1, c2)
CommitmentAddScalar(c, s) == PointAdd(c, ScalarMul(s, G))
CommitmentSubScalar(c, s) == PointSub(c, ScalarMul(s, G))

HandleAdd(d1, d2) == PointAdd(d1, d2)
HandleSub(d1, d2) == PointSub(d1, d2)

\* Commitment to amount a under blinding r, and the handle for key pk.
CommitmentNew(a, r) == PointAdd(ScalarMul(a, G), ScalarMul(r, H))
HandleNew(pk, r) == ScalarMul(r, pk)

---------------------------------------------------------------------------
(* Ciphertext                                                              *)

CiphertextNew(commitment, handle) ==
    [commitment |-> commitment, handle |-> handle]

Ciphertext == [commitment : Point, handle : Point]

\* Ciphertext::zero() with the handle left at the generator.
ZeroHandleNotIdentity ==
    [commitment |-> CommitmentFromPoint(Identity),
     handle |-> HandleFromPoint(G)]

Zero ==
    [commitment |-> CommitmentFromPoint(Identity),
     handle |-> HandleFromPoint(Identity)]

Encrypt(a, r, pk) == CiphertextNew(CommitmentNew(a, r), HandleNew(pk, r))


\* self.compress(): the commitment's compressed point, then the handle's.
CompressedCiphertextNew(commitment, handle) ==
    [commitment |-> commitment, handle |-> handle]

\* compress() with the two halves in the wrong order.
CompressHandleFirst(self) ==
    CompressedCiphertextNew(PointCompress(self.handle),
                            PointCompress(self.commitment))

Compress(self) ==
    CompressedCiphertextNew(PointCompress(self.commitment),
                            PointCompress(self.handle))

\* ADD TRAITS

\* + that forgets the right-hand handle.
AddDropsRhsHandle(self, rhs) ==
    [commitment |-> CommitmentAdd(self.commitment, rhs.commitment),
     handle |-> self.handle]

Add(self, rhs) ==
    [commitment |-> CommitmentAdd(self.commitment, rhs.commitment),
     handle |-> HandleAdd(self.handle, rhs.handle)]

\* + on a borrowed operand that forgets the right-hand handle.
AddRefDropsRhsHandle(self, rhs) ==
    [commitment |-> CommitmentAdd(self.commitment, rhs.commitment),
     handle |-> self.handle]

AddRef(self, rhs) ==
    [commitment |-> CommitmentAdd(self.commitment, rhs.commitment),
     handle |-> HandleAdd(self.handle, rhs.handle)]

\* + of a scalar with the body of - pasted in.
AddScalarSubtracts(self, rhs) ==
    [commitment |-> CommitmentSubScalar(self.commitment, rhs),
     handle |-> self.handle]

AddScalar(self, rhs) ==
    [commitment |-> CommitmentAddScalar(self.commitment, rhs),
     handle |-> self.handle]

AddScalarRef(self, rhs) ==
    [commitment |-> CommitmentAddScalar(self.commitment, rhs),
     handle |-> self.handle]

\* ADD ASSIGN TRAITS: the value of *self after the call.

AddAssign(self, rhs) ==
    LET s1 == [self EXCEPT !.commitment = CommitmentAdd(@, rhs.commitment)]
    IN  [s1 EXCEPT !.handle = HandleAdd(@, rhs.handle)]

AddAssignRef(self, rhs) ==
    LET s1 == [self EXCEPT !.commitment = CommitmentAdd(@, rhs.commitment)]
    IN  [s1 EXCEPT !.handle = HandleAdd(@, rhs.handle)]

\* += of a scalar that adjusts the handle as well.
AddAssignScalarTouchesHandle(self, rhs) ==
    [commitment |-> CommitmentAddScalar(self.commitment, rhs),
     handle |-> PointAdd(self.handle, ScalarMul(rhs, G))]

AddAssignScalar(self, rhs) ==
    [self EXCEPT !.commitment = CommitmentAddScalar(@, rhs)]

AddAssignScalarRef(self, rhs) ==
    [self EXCEPT !.commitment = CommitmentAddScalar(@, rhs)]

\* SUB TRAITS

\* - that adds the handles.
SubAddsHandles(self, rhs) ==
    [commitment |-> CommitmentSub(self.commitment, rhs.commitment),
     handle |-> HandleAdd(self.handle, rhs.handle)]

Sub(self, rhs) ==
    [commitment |-> CommitmentSub(self.commitment, rhs.commitment),
     handle |-> HandleSub(self.handle, rhs.handle)]

SubRef(self, rhs) ==
    [commitment |-> CommitmentSub(self.commitment, rhs.commitment),
     handle |-> HandleSub(self.handle, rhs.handle)]

SubScalar(self, rhs) ==
    [commitment |-> CommitmentSubScalar(self.commitment, rhs),
     handle |-> self.handle]

SubScalarRef(self, rhs) ==
    [commitment |-> CommitmentSubScalar(self.commitment, rhs),
     handle |-> self.handle]

\* SUB ASSIGN TRAITS: the value of *self after the call.

\* -= that adds the handles.
SubAssignAddsHandles(self, rhs) ==
    LET s1 == [self EXCEPT !.commitment = CommitmentSub(@, rhs.commitment)]
    IN  [s1 EXCEPT !.handle = HandleAdd(@, rhs.handle)]

SubAssign(self, rhs) ==
    LET s1 == [self EXCEPT !.commitment = CommitmentSub(@, rhs.commitment)]
    IN  [s1 EXCEPT !.handle = HandleSub(@, rhs.handle)]

\* -= on a borrowed operand that leaves the handle alone.
SubAssignRefKeepsHandle(self, rhs) ==
    [self EXCEPT !.commitment = CommitmentSub(@, rhs.commitment)]

SubAssignRef(self, rhs) ==
    LET s1 == [self EXCEPT !.commitment = CommitmentSub(@, rhs.commitment)]
    IN  [s1 EXCEPT !.handle = HandleSub(@, rhs.handle)]

SubAssignScalar(self, rhs) ==
    [self EXCEPT !.commitment = CommitmentSubScalar(@, rhs)]

SubAssignScalarRef(self, rhs) ==
    [self EXCEPT !.commitment = CommitmentSubScalar(@, rhs)]

---------------------------------------------------------------------------
(* Compressed wire form: CompressedCiphertext.                             *)

\* The serialized form: commitment bytes, then handle bytes.
ToBytes(compressed) == compressed.commitment \o compressed.handle

WireSize == 2 * PointSize

Wire == [1 .. WireSize -> Byte]

\* decompress that puts the identity in place of a half it cannot decode.
DecompressOrDefault(bytes) ==
    LET c == PointDecompress(SubSeq(bytes, 1, PointSize))
        d == PointDecompress(SubSeq(bytes, PointSize + 1, WireSize))
    IN  [state |-> "ok",
         value |-> CiphertextNew(CommitmentFromPoint(c.point),
                                 HandleFromPoint(d.point))]

\* CompressedCiphertext::decompress on a buffer of WireSize bytes: each half
\* is decompressed, the first failure is returned as the error.
Decompress(bytes) ==
    LET c == PointDecompress(SubSeq(bytes, 1, PointSize))
        d == PointDecompress(SubSeq(bytes, PointSize + 1, WireSize))
    IN  IF ~c.ok THEN [state |-> "err", err |-> "DecompressionError"]
        ELSE IF ~d.ok THEN [state |-> "err", err |-> "DecompressionError"]
        ELSE [state |-> "ok",
              value |-> CiphertextNew(CommitmentFromPoint(c.point),
                                      HandleFromPoint(d.point))]

---------------------------------------------------------------------------
(* MinerWork (block/miner.rs)                                              *)
(*                                                                         *)
(* A u64 is held as four 16-bit limbs, least significant first, so that    *)
(* its full width is kept.  Byte strings are sequences of 0 .. 255.        *)

BLOCK_WORK_SIZE == 112
EXTRA_NONCE_SIZE == 32
HASH_SIZE == 32
RISTRETTO_COMPRESSED_SIZE == 32

\* Size of xelis_hash's Input, the buffer the proof-of-work hash reads.
BYTES_ARRAY_INPUT == 200

\* Most increase_nonce calls followed in one run.
MaxIncrements == 2

\* Inputs (hashes, timestamps, buffers) are drawn with index 0 .. MaxInput.
MaxInput == 1

Zeros(n) == [i \in 1 .. n |-> 0]

\* A byte string of n bytes, byte i being a * i + b.
Pattern(n, a, b) == [i \in 1 .. n |-> (a * i + b) % 256]

U64Max == <<65535, 65535, 65535, 65535>>
U64Zero == <<0, 0, 0, 0>>

\* u64 + 1, wrapping.
U64Inc(v) ==
    IF v[1] < 65535 THEN <<v[1] + 1, v[2], v[3], v[4]>>
    ELSE IF v[2] < 65535 THEN <<0, v[2] + 1, v[3], v[4]>>
    ELSE IF v[3] < 65535 THEN <<0, 0, v[3] + 1, v[4]>>
    ELSE IF v[4] < 65535 THEN <<0, 0, 0, v[4] + 1>>
    ELSE U64Zero

\* u64::to_be_bytes: most significant byte first.
ToBeBytes(v) ==
    <<v[4] \div 256, v[4] % 256, v[3] \div 256, v[3] % 256,
      v[2] \div 256, v[2] % 256, v[1] \div 256, v[1] % 256>>

\* u16::to_be_bytes.
U16ToBeBytes(id) == <<id \div 256, id % 256>>

\* Reader::read_u64: eight bytes, big-endian.
ReadU64(b) ==
    <<b[7] * 256 + b[8], b[5] * 256 + b[6],
      b[3] * 256 + b[4], b[1] * 256 + b[2]>>

\* buf[from .. from + len(src)].copy_from_slice(src), from counted from 0.
CopyFromSlice(buf, from, src) ==
    [i \in 1 .. Len(buf) |->
        IF from < i /\ i <= from + Len(src) THEN src[i - from] ELSE buf[i]]

NoMiner == [some |-> FALSE, key |-> Zeros(RISTRETTO_COMPRESSED_SIZE)]
SomeMiner(key) == [some |-> TRUE, key |-> key]

NoCache == [some |-> FALSE, input |-> <<>>]
SomeCache(input) == [some |-> TRUE, input |-> input]

MinerWorkNew(header_work_hash, timestamp) ==
    [header_work_hash |-> header_work_hash,
     timestamp |-> timestamp,
     nonce |-> U64Zero,
     miner |-> NoMiner,
     extra_nonce |-> Zeros(EXTRA_NONCE_SIZE),
     cache |-> NoCache]

\* write with the nonce put before the timestamp.
WriteNonceFirst(self, writer, debug_assertions) ==
    LET out == writer
                \o self.header_work_hash
                \o ToBeBytes(self.nonce)
                \o ToBeBytes(self.timestamp)
                \o self.extra_nonce
                \o (IF self.miner.some
                    THEN self.miner.key
                    ELSE Zeros(RISTRETTO_COMPRESSED_SIZE))
    IN  [panic |-> debug_assertions /\ Len(out) # BLOCK_WORK_SIZE,
         writer |-> out]

\* Serializer::write: the fields appended to the writer.  The
\* debug_assert! that ends it compares the writer's total with
\* BLOCK_WORK_SIZE: a build with debug assertions panics there, with the
\* bytes already in the writer, when the total differs.
Write(self, writer, debug_assertions) ==
    LET out == writer
                \o self.header_work_hash
                \o ToBeBytes(self.timestamp)
                \o ToBeBytes(self.nonce)
                \o self.extra_nonce
                \o (IF self.miner.some
                    THEN self.miner.key
                    ELSE Zeros(RISTRETTO_COMPRESSED_SIZE))
    IN  [panic |-> debug_assertions /\ Len(out) # BLOCK_WORK_SIZE,
         writer |-> out]

\* Serializer::to_bytes: write into a new writer, whose total is
\* BLOCK_WORK_SIZE in either build.
MinerWorkToBytes(self) == Write(self, <<>>, TRUE).writer

\* MinerWork::from_block: the work of a block header.
FromBlock(header) ==
    [header_work_hash |-> header.work_hash,
     timestamp |-> header.timestamp,
     nonce |-> U64Zero,
     miner |-> SomeMiner(header.miner),
     extra_nonce |-> header.extra_nonce,
     cache |-> NoCache]

\* Serializer::read on a reader over bytes.
Read(bytes) ==
    IF Len(bytes) # BLOCK_WORK_SIZE
    THEN [ok |-> FALSE, err |-> "InvalidSize"]
    ELSE [ok |-> TRUE,
          work |->
            [header_work_hash |-> SubSeq(bytes, 1, 32),
             timestamp |-> ReadU64(SubSeq(bytes, 33, 40)),
             nonce |-> ReadU64(SubSeq(bytes, 41, 48)),
             extra_nonce |-> SubSeq(bytes, 49, 80),
             miner |-> SomeMiner(SubSeq(bytes, 81, 112)),
             cache |-> NoCache]]

\* get_pow_hash: self after the call; the bytes hashed are its cache.
GetPowHash(self) ==
    IF ~self.cache.some
    THEN [self EXCEPT !.cache =
            SomeCache(CopyFromSlice(Zeros(BYTES_ARRAY_INPUT), 0,
                                    MinerWorkToBytes(self)))]
    ELSE self

SetTimestamp(self, timestamp) ==
    LET s1 == [self EXCEPT !.timestamp = timestamp]
    IN  IF s1.cache.some
        THEN [s1 EXCEPT !.cache.input =
                CopyFromSlice(@, 32, ToBeBytes(s1.timestamp))]
        ELSE s1

IncreaseNonce(self) ==
    LET s1 == [self EXCEPT !.nonce = U64Inc(@)]
    IN  IF s1.cache.some
        THEN [s1 EXCEPT !.cache.input =
                CopyFromSlice(@, 40, ToBeBytes(s1.nonce))]
        ELSE s1

SetMiner(self, miner) == [self EXCEPT !.miner = SomeMiner(miner)]

SetThreadId(self, id) ==
    [self EXCEPT !.extra_nonce[EXTRA_NONCE_SIZE - 1 + 1] = id]

SetThreadIdU16(self, id) ==
    [self EXCEPT !.extra_nonce =
        CopyFromSlice(@, EXTRA_NONCE_SIZE - 2, U16ToBeBytes(id))]

\* A write of the whole array through the reference get_extra_nonce gives.
WriteExtraNonce(self, bytes) == [self EXCEPT !.extra_nonce = bytes]

Hashes == {Pattern(HASH_SIZE, 1, k) : k \in {0, 1}}
Timestamps == {<<256 * k + 1, k, 0, 2 * k>> : k \in 0 .. MaxInput}
MinerKeys == {Pattern(RISTRETTO_COMPRESSED_SIZE, 2, 1)}
ThreadIds == {7}
ThreadIdsU16 == {258}
ExtraNonces == {Pattern(EXTRA_NONCE_SIZE, 3, 5)}

\* Block headers given to from_block: their work hash, timestamp, miner
\* and extra nonce.
BlockHeaders ==
    [work_hash : Hashes, timestamp : Timestamps, miner : MinerKeys,
     extra_nonce : {Pattern(EXTRA_NONCE_SIZE, 7, 3)}]

\* Writers a caller hands to write: a new one, one that holds a byte, and
\* one that holds BLOCK_WORK_SIZE bytes already.
Writers == {<<>>, <<9>>, Zeros(BLOCK_WORK_SIZE)}

Buffers ==
    {Pattern(n, a, b) :
        n \in {0, BLOCK_WORK_SIZE - 1, BLOCK_WORK_SIZE, BLOCK_WORK_SIZE + 1},
        a \in {0, 1}, b \in {0, 255}}

---------------------------------------------------------------------------
(* State                                                                   *)

VARIABLES
    x,        \* the live ciphertext the caller operates on
    shadow,   \* the same operations applied with the pure + and -
    last,     \* the last operation: its name, x before it, its operand
    rhs,      \* the right-hand operand after the call (moved if by value)
    wire,     \* the bytes of a compressed ciphertext, <<>> when none
    origin,   \* the ciphertext wire was compressed from, if any
    dec,      \* the result of decompressing wire
    mw,       \* the MinerWork a miner thread holds
    mwLast,   \* the last MinerWork call: its name, and the bytes it took
              \* or gave
    mwIncs    \* increase_nonce calls so far

vars == <<x, shadow, last, rhs, wire, origin, dec, mw, mwLast, mwIncs>>

algebraVars == <<x, shadow, last, rhs>>
wireVars == <<wire, origin, dec>>
minerVars == <<mw, mwLast, mwIncs>>

Moved == [moved |-> TRUE, ct |-> Zero, scalar |-> 0]
Borrowed(ct, s) == [moved |-> FALSE, ct |-> ct, scalar |-> s]

NoOrigin == [some |-> FALSE, ct |-> Zero]
NoResult == [state |-> "none"]

InitWire ==
    /\ wire = <<>>
    /\ origin = NoOrigin
    /\ dec = NoResult

Called(op, bytes) ==
    [op |-> op, bytes |-> bytes, err |-> "none", writer |-> <<>>]

InitMiner ==
    /\ mw = MinerWorkNew(Pattern(HASH_SIZE, 1, 0), <<1, 0, 0, 0>>)
    /\ mwLast = Called("new", <<>>)
    /\ mwIncs = 0

\* The caller holds any ciphertext built by Ciphertext::new.
Init ==
    /\ x \in Ciphertext
    /\ shadow = x
    /\ last = [op |-> "new", before |-> x, ct |-> Zero, scalar |-> 0]
    /\ rhs = Moved
    /\ InitWire
    /\ InitMiner

\* x = x (op) y, or x (op)= y, with a ciphertext operand y.
CtStep(op, result, pure, y, after) ==
    /\ x' = result
    /\ shadow' = pure
    /\ last' = [op |-> op, before |-> x, ct |-> y, scalar |-> 0]
    /\ rhs' = after
    /\ UNCHANGED wireVars
    /\ UNCHANGED minerVars

\* The same with a scalar operand s.
ScalarStep(op, result, pure, s, after) ==
    /\ x' = result
    /\ shadow' = pure
    /\ last' = [op |-> op, before |-> x, ct |-> Zero, scalar |-> s]
    /\ rhs' = after
    /\ UNCHANGED wireVars
    /\ UNCHANGED minerVars

OpAdd == \E y \in Ciphertext :
    CtStep("add", Add(x, y), Add(shadow, y), y, Moved)
OpAddRef == \E y \in Ciphertext :
    CtStep("add_ref", AddRef(x, y), AddRef(shadow, y), y, Borrowed(y, 0))
OpAddScalar == \E s \in Scalar :
    ScalarStep("add_scalar", AddScalar(x, s), AddScalar(shadow, s), s, Moved)
OpAddScalarRef == \E s \in Scalar :
    ScalarStep("add_scalar_ref", AddScalarRef(x, s), AddScalarRef(shadow, s), s,
               Borrowed(Zero, s))
OpAddAssign == \E y \in Ciphertext :
    CtStep("add_assign", AddAssign(x, y), Add(shadow, y), y, Moved)
OpAddAssignRef == \E y \in Ciphertext :
    CtStep("add_assign_ref", AddAssignRef(x, y), AddRef(shadow, y), y,
           Borrowed(y, 0))
OpAddAssignScalar == \E s \in Scalar :
    ScalarStep("add_assign_scalar", AddAssignScalar(x, s),
               AddScalar(shadow, s), s, Moved)
OpAddAssignScalarRef == \E s \in Scalar :
    ScalarStep("add_assign_scalar_ref", AddAssignScalarRef(x, s),
               AddScalarRef(shadow, s), s, Borrowed(Zero, s))

OpSub == \E y \in Ciphertext :
    CtStep("sub", Sub(x, y), Sub(shadow, y), y, Moved)
OpSubRef == \E y \in Ciphertext :
    CtStep("sub_ref", SubRef(x, y), SubRef(shadow, y), y, Borrowed(y, 0))
OpSubScalar == \E s \in Scalar :
    ScalarStep("sub_scalar", SubScalar(x, s), SubScalar(shadow, s), s, Moved)
OpSubScalarRef == \E s \in Scalar :
    ScalarStep("sub_scalar_ref", SubScalarRef(x, s), SubScalarRef(shadow, s), s,
               Borrowed(Zero, s))
OpSubAssign == \E y \in Ciphertext :
    CtStep("sub_assign", SubAssign(x, y), Sub(shadow, y), y, Moved)
OpSubAssignRef == \E y \in Ciphertext :
    CtStep("sub_assign_ref", SubAssignRef(x, y), SubRef(shadow, y), y,
           Borrowed(y, 0))
OpSubAssignScalar == \E s \in Scalar :
    ScalarStep("sub_assign_scalar", SubAssignScalar(x, s),
               SubScalar(shadow, s), s, Moved)
OpSubAssignScalarRef == \E s \in Scalar :
    ScalarStep("sub_assign_scalar_ref", SubAssignScalarRef(x, s),
               SubScalarRef(shadow, s), s, Borrowed(Zero, s))

Next ==
    \/ OpAdd \/ OpAddRef \/ OpAddScalar \/ OpAddScalarRef
    \/ OpAddAssign \/ OpAddAssignRef
    \/ OpAddAssignScalar \/ OpAddAssignScalarRef
    \/ OpSub \/ OpSubRef \/ OpSubScalar \/ OpSubScalarRef
    \/ OpSubAssign \/ OpSubAssignRef
    \/ OpSubAssignScalar \/ OpSubAssignScalarRef

Spec == Init /\ [][Next]_vars

---------------------------------------------------------------------------
(* The compression boundary.                                               *)

InitW ==
    /\ x = Zero
    /\ shadow = x
    /\ last = [op |-> "new", before |-> x, ct |-> Zero, scalar |-> 0]
    /\ rhs = Moved
    /\ InitWire
    /\ InitMiner

\* ct.compress() serialized into the buffer.
DoCompress == \E ct \in Ciphertext :
    /\ wire' = ToBytes(Compress(ct))
    /\ origin' = [some |-> TRUE, ct |-> ct]
    /\ dec' = NoResult
    /\ UNCHANGED algebraVars
    /\ UNCHANGED minerVars

\* A buffer read from the network or from disk: any bytes.
Receive == \E bytes \in Wire :
    /\ wire' = bytes
    /\ origin' = NoOrigin
    /\ dec' = NoResult
    /\ UNCHANGED algebraVars
    /\ UNCHANGED minerVars

DoDecompress ==
    /\ wire # <<>>
    /\ dec' = Decompress(wire)
    /\ UNCHANGED <<wire, origin>>
    /\ UNCHANGED algebraVars
    /\ UNCHANGED minerVars

NextW == DoCompress \/ Receive \/ DoDecompress

SpecW == InitW /\ [][NextW]_vars

---------------------------------------------------------------------------
(* A miner thread working on a MinerWork.                                  *)

InitM ==
    /\ x = Zero
    /\ shadow = x
    /\ last = [op |-> "new", before |-> x, ct |-> Zero, scalar |-> 0]
    /\ rhs = Moved
    /\ InitWire
    /\ mw \in {MinerWorkNew(h, t) : h \in Hashes, t \in Timestamps}
    /\ mwLast = Called("new", <<>>)
    /\ mwIncs = 0

\* A call on the work the thread holds.
MwStep(op, self, bytes) ==
    /\ mwLast.err # "InvalidSize"
    /\ mw' = self
    /\ mwLast' = Called(op, bytes)
    /\ UNCHANGED mwIncs
    /\ UNCHANGED <<algebraVars, wireVars>>

\* The work the thread is left with when it holds none.
NoWork == MinerWorkNew(Zeros(HASH_SIZE), U64Zero)

\* MinerWork::new: a new job replaces the work held.
DoNew == \E h \in Hashes, t \in Timestamps :
    /\ mw' = MinerWorkNew(h, t)
    /\ mwLast' = Called("new", <<>>)
    /\ mwIncs' = 0
    /\ UNCHANGED <<algebraVars, wireVars>>

\* MinerWork::from_bytes: the work read replaces the work held; after an
\* error the thread holds no work.
DoRead == \E bytes \in Buffers :
    LET r == Read(bytes)
    IN  /\ mw' = IF r.ok THEN r.work ELSE NoWork
        /\ mwLast' = [op |-> "read", bytes |-> bytes,
                      err |-> IF r.ok THEN "none" ELSE r.err,
                      writer |-> <<>>]
        /\ mwIncs' = 0
        /\ UNCHANGED <<algebraVars, wireVars>>

\* write(&mut writer): the writer before the call (new for to_bytes, or
\* already holding bytes) and the bytes in it after, in a build with or
\* without debug assertions; a panic leaves the bytes in the writer.
DoWrite == \E writer \in Writers, debug_assertions \in BOOLEAN :
    LET r == Write(mw, writer, debug_assertions)
    IN  /\ mwLast.err # "InvalidSize"
        /\ mw' = mw
        /\ mwLast' = [op |-> "write", bytes |-> r.writer,
                      err |-> IF r.panic THEN "panic" ELSE "none",
                      writer |-> writer]
        /\ UNCHANGED mwIncs
        /\ UNCHANGED <<algebraVars, wireVars>>

\* MinerWork::from_block: the work of a header replaces the work held.
DoFromBlock == \E header \in BlockHeaders :
    /\ mw' = FromBlock(header)
    /\ mwLast' = Called("from_block", <<>>)
    /\ mwIncs' = 0
    /\ UNCHANGED <<algebraVars, wireVars>>

\* get_pow_hash: the bytes handed to pow_hash_with_scratch_pad are the
\* first BLOCK_WORK_SIZE .. bytes of the cache after the call.
DoGetPowHash ==
    MwStep("get_pow_hash", GetPowHash(mw), GetPowHash(mw).cache.input)

DoSetTimestamp == \E t \in Timestamps :
    MwStep("set_timestamp", SetTimestamp(mw, t), <<>>)

\* self.nonce += 1 wraps in a release build and panics, before the store,
\* in a debug build.
DoIncreaseNonce ==
    /\ mwLast.err # "InvalidSize"
    /\ mwIncs < MaxIncrements
    /\ \/ /\ mw' = IncreaseNonce(mw)
          /\ mwLast' = Called("increase_nonce", <<>>)
       \/ /\ mw.nonce = U64Max
          /\ mw' = mw
          /\ mwLast' = [op |-> "increase_nonce", bytes |-> <<>>,
                        err |-> "panic", writer |-> <<>>]
    /\ mwIncs' = mwIncs + 1
    /\ UNCHANGED <<algebraVars, wireVars>>

DoSetMiner == \E k \in MinerKeys :
    MwStep("set_miner", SetMiner(mw, k), <<>>)

DoSetThreadId == \E id \in ThreadIds :
    MwStep("set_thread_id", SetThreadId(mw, id), <<>>)

DoSetThreadIdU16 == \E id \in ThreadIdsU16 :
    MwStep("set_thread_id_u16", SetThreadIdU16(mw, id), <<>>)

DoWriteExtraNonce == \E bytes \in ExtraNonces :
    MwStep("get_extra_nonce", WriteExtraNonce(mw, bytes), <<>>)

NextM ==
    \/ DoNew \/ DoFromBlock \/ DoRead \/ DoWrite \/ DoGetPowHash
    \/ DoSetTimestamp \/ DoIncreaseNonce
    \/ DoSetMiner \/ DoSetThreadId \/ DoSetThreadIdU16
    \/ DoWriteExtraNonce

SpecM == InitM /\ [][NextM]_vars

---------------------------------------------------------------------------
(* Properties                                                              *)

CtAddOps == {"add", "add_ref", "add_assign", "add_assign_ref"}
CtSubOps == {"sub", "sub_ref", "sub_assign", "sub_assign_ref"}
ScalarAddOps == {"add_scalar", "add_scalar_ref",
                 "add_assign_scalar", "add_assign_scalar_ref"}
ScalarSubOps == {"sub_scalar", "sub_scalar_ref",
                 "sub_assign_scalar", "sub_assign_scalar_ref"}

\* A byte string is a valid compressed point iff it is the canonical
\* encoding of some group element.
ValidEncoding(b) == \E p \in Point : PointCompress(p) = b

CommitmentHalf(bytes) == SubSeq(bytes, 1, PointSize)
HandleHalf(bytes) == SubSeq(bytes, PointSize + 1, WireSize)

\* C1: every scalar operation (+ s, - s, by value or by reference, += s,
\* -= s) leaves the decrypt handle equal to D and moves the commitment to
\* C + s.G for addition and to C - s.G for subtraction.
ScalarOpKeepsHandle ==
    /\ last.op \in ScalarAddOps =>
          /\ x.handle = last.before.handle
          /\ x.commitment =
                PointAdd(last.before.commitment, ScalarMul(last.scalar, G))
    /\ last.op \in ScalarSubOps =>
          /\ x.handle = last.before.handle
          /\ x.commitment =
                PointSub(last.before.commitment, ScalarMul(last.scalar, G))

ScalarOpKeepsHandleWitness ==
    /\ last.op = "add_assign_scalar"
    /\ last.scalar # 0
    /\ last.before.handle # Identity
    /\ x.commitment # last.before.commitment

\* C2: for X1 = (a1.G + r1.H, r1.Pk) and X2 = (a2.G + r2.H, r2.Pk) under
\* the same key Pk, X1 + X2 is ((a1+a2).G + (r1+r2).H, (r1+r2).Pk) and
\* X1 - X2 is ((a1-a2).G + (r1-r2).H, (r1-r2).Pk).
Homomorphic ==
    last.op \in CtAddOps \cup CtSubOps =>
    \A pk \in Point : \A a1, r1 \in Scalar :
        last.before = Encrypt(a1, r1, pk) =>
        \A a2, r2 \in Scalar :
            last.ct = Encrypt(a2, r2, pk) =>
            LET a == IF last.op \in CtAddOps
                     THEN ScalarAdd(a1, a2) ELSE ScalarSub(a1, a2)
                r == IF last.op \in CtAddOps
                     THEN ScalarAdd(r1, r2) ELSE ScalarSub(r1, r2)
            IN  /\ x.commitment = PointAdd(ScalarMul(a, G), ScalarMul(r, H))
                /\ x.handle = ScalarMul(r, pk)

HomomorphicWitness ==
    /\ last.op = "sub"
    /\ last.before = Encrypt(1, 1, 3)
    /\ last.ct = Encrypt(3, 2, 3)
    /\ x = Encrypt(Q - 2, Q - 1, 3)

\* C3: Ciphertext::zero() is the identity pair, X + zero() = X and
\* X - X = zero().
ZeroIsIdentity ==
    /\ Zero.commitment = Identity
    /\ Zero.handle = Identity
    /\ last.op \in CtAddOps /\ last.ct = Zero => x = last.before
    /\ last.op \in CtSubOps /\ last.ct = last.before => x = Zero

ZeroIsIdentityWitness ==
    /\ last.op = "sub"
    /\ last.ct = last.before
    /\ last.before.commitment # Identity
    /\ last.before.handle # Identity
    /\ x = Zero

\* C4: X + Y = Y + X and (X + Y) + Z = X + (Y + Z), on both components.
AddCommutesAndAssociates ==
    last.op \in CtAddOps =>
        /\ x = Add(last.ct, last.before)
        /\ \A z \in Ciphertext :
               Add(x, z) = Add(last.before, Add(last.ct, z))

AddCommutesAndAssociatesWitness ==
    /\ last.op = "add"
    /\ last.ct # last.before
    /\ last.ct.handle # last.before.handle
    /\ last.ct # Zero
    /\ last.before # Zero

\* C5: (X + Y) - Y = X, on both components.
SubUndoesAdd ==
    last.op \in CtAddOps =>
        /\ Sub(x, last.ct) = last.before
        /\ SubRef(x, last.ct) = last.before
        /\ SubAssign(x, last.ct) = last.before
        /\ SubAssignRef(x, last.ct) = last.before

SubUndoesAddWitness ==
    /\ last.op = "add_ref"
    /\ last.ct.commitment # Identity
    /\ last.ct.handle # Identity
    /\ x # last.before

\* C6: (X + a) + b = X + (a + b), a + b reduced modulo the group order.
ScalarAddsCompose ==
    last.op \in ScalarAddOps =>
        \A b \in Scalar :
            AddScalar(x, b) =
                AddScalar(last.before, ScalarAdd(last.scalar, b))

ScalarAddsComposeWitness ==
    /\ last.op = "add_scalar"
    /\ last.scalar = Q - 1
    /\ x # last.before

\* C7: (X + a) + Y = (X + Y) + a.
ScalarCommutesWithAdd ==
    last.op \in CtAddOps =>
        \A a \in Scalar :
            /\ Add(AddScalar(last.before, a), last.ct) = AddScalar(x, a)
            /\ AddRef(AddScalarRef(last.before, a), last.ct) =
                   AddScalarRef(x, a)

ScalarCommutesWithAddWitness ==
    /\ last.op = "add_ref"
    /\ last.ct.handle # Identity
    /\ last.ct.commitment # Identity
    /\ last.before # Zero

\* C8: compress() always yields the commitment's compressed point followed
\* by the handle's, and decompressing it gives back the ciphertext.
CompressRoundTrips ==
    origin.some =>
        /\ Len(wire) = WireSize
        /\ CommitmentHalf(wire) = PointCompress(origin.ct.commitment)
        /\ HandleHalf(wire) = PointCompress(origin.ct.handle)
        /\ dec.state # "none" => dec.state = "ok" /\ dec.value = origin.ct

CompressRoundTripsWitness ==
    /\ origin.some
    /\ origin.ct.commitment # origin.ct.handle
    /\ origin.ct.handle # Identity
    /\ dec.state = "ok"

\* C9: decompressing a buffer one of whose halves is not a valid compressed
\* point gives a decode error and no ciphertext.
DecodeRejection ==
    /\ dec.state # "none"
    /\ ~ValidEncoding(CommitmentHalf(wire)) \/ ~ValidEncoding(HandleHalf(wire))
    => /\ dec.state = "err"
       /\ "value" \notin DOMAIN dec

DecodeRejectionWitness ==
    /\ dec.state = "err"
    /\ ValidEncoding(CommitmentHalf(wire))
    /\ ~ValidEncoding(HandleHalf(wire))

\* C10: after any sequence of operations the receiver of the in-place
\* operators equals the value the pure operators give in the same order,
\* and a borrowed right-hand operand is as it was passed.
InPlaceEqualsPure ==
    /\ x = shadow
    /\ ~rhs.moved => rhs.ct = last.ct /\ rhs.scalar = last.scalar

InPlaceEqualsPureWitness ==
    /\ last.op = "sub_assign_ref"
    /\ ~rhs.moved
    /\ rhs.ct # Zero
    /\ x # last.before
    /\ last.before # Zero

\* The value of a u64 is the big-endian number in the eight bytes of b that
\* follow offset from: limb j is the byte pair 2 * (4 - j) bytes in.
HoldsBigEndian(b, from, v) ==
    \A j \in 1 .. 4 :
        b[from + 2 * (4 - j) + 1] * 256 + b[from + 2 * (4 - j) + 2] = v[j]

\* C11: whenever the cached hash input is present its first BLOCK_WORK_SIZE
\* bytes are the serialization of the current fields, and get_pow_hash
\* hashes the current fields.
CacheIsCurrent ==
    /\ mw.cache.some =>
          SubSeq(mw.cache.input, 1, BLOCK_WORK_SIZE) = MinerWorkToBytes(mw)
    /\ mwLast.op = "get_pow_hash" =>
          SubSeq(mwLast.bytes, 1, BLOCK_WORK_SIZE) = MinerWorkToBytes(mw)

\* The bytes the last write put into its writer: those after the bytes
\* the writer held before the call.
Emitted == SubSeq(mwLast.bytes, Len(mwLast.writer) + 1, Len(mwLast.bytes))

\* C12: write always emits exactly BLOCK_WORK_SIZE bytes: the work hash at
\* 0..32, the timestamp big-endian at 32..40, the nonce big-endian at
\* 40..48, the extra nonce at 48..80, the miner key (zeros when there is
\* none) at 80..112; read rejects every input of another size with
\* InvalidSize, and writing what read accepted gives the input back.
SerializationLayout ==
    /\ mwLast.op = "write" =>
          /\ Len(Emitted) = BLOCK_WORK_SIZE
          /\ \A i \in 1 .. 32 : Emitted[i] = mw.header_work_hash[i]
          /\ HoldsBigEndian(Emitted, 32, mw.timestamp)
          /\ HoldsBigEndian(Emitted, 40, mw.nonce)
          /\ \A i \in 1 .. 32 : Emitted[48 + i] = mw.extra_nonce[i]
          /\ \A i \in 1 .. 32 :
                Emitted[80 + i] = IF mw.miner.some THEN mw.miner.key[i] ELSE 0
          /\ \A i \in 1 .. Len(mwLast.writer) :
                mwLast.bytes[i] = mwLast.writer[i]
    /\ mwLast.op = "read" =>
          /\ Len(mwLast.bytes) # BLOCK_WORK_SIZE => mwLast.err = "InvalidSize"
          /\ mwLast.err = "none" =>
                /\ Len(mwLast.bytes) = BLOCK_WORK_SIZE
                /\ MinerWorkToBytes(mw) = mwLast.bytes

SerializationLayoutWitness ==
    /\ mwLast.op = "write"
    /\ mwLast.writer # <<>>
    /\ ~mw.miner.some
    /\ mw.nonce # U64Zero
    /\ mw.timestamp[1] > 255
    /\ mw.extra_nonce[EXTRA_NONCE_SIZE] = 7

\* The debug_assert that ends write fails only when the writer held bytes
\* before the call: never for the new writer of to_bytes.
WritePanics ==
    mwLast.op = "write" =>
        (mwLast.err = "panic" => mwLast.writer # <<>>)

============================================================================
